---- MODULE Spec2Model ----
(***************************************************************************)
(* WorkMonitor: the single-instance guard (SingleInstance), the repository *)
(* list kept in ~/.workmonitor/repositories.json, and the start/stop/      *)
(* tabulate command handlers of the GUI (monitorWork.py) and of the web    *)
(* server (monitorWork_server.py).                                         *)
(***************************************************************************)
EXTENDS Integers, Sequences, FiniteSets, TLC

\* ------------------------------------------------------------------------
\* Bounds
\* ------------------------------------------------------------------------
NProcs == 2

Procs == 1..NProcs

\* At most NProcs processes of the front-end exist at a time; a slot whose
\* process has ended can hold a newly launched one.  Inodes are numbered
\* like the slots (at most NProcs are in use at a time).
\* 0 stands for Python's None / "no such file" / "no holder" / empty content.
None == 0

VARIABLES
  \* --- single-instance guard, one lock path, processes of one front-end ---
  pc,          \* position of each process in main / __enter__ / __exit__
  lock_fd,     \* self.lock_fd: the inode the process has open, or None
  lockPath,    \* the inode LOCK_FILE names on disk, or None when absent
  content,     \* text held by each inode (None = empty, p = str(pid of p))
  flockOwner,  \* which process holds the flock of each inode, or None
  acquired,    \* __enter__ returned self in this process
  notified,    \* the "already running" message was shown by this process
  exitStatus,  \* exit status of the process (-1 while it runs)
  loadedCfg,   \* the application body ran (it loads the configuration)
  releaseRan,  \* __exit__ ran to its end in this process
  excType,     \* what unwinds the with block: "none", "error", "interrupt"
  flockCalls,  \* number of flock(LOCK_EX|LOCK_NB) calls made by the process
  releaseError \* the statement of __exit__ that raised, or "none"

lockVars == <<pc, lock_fd, lockPath, content, flockOwner, acquired, notified,
              exitStatus, loadedCfg, releaseRan, excType, flockCalls,
              releaseError>>

VARIABLES
  \* --- repository list: one front-end instance over CONFIG_FILE ---
  frontend,    \* which front-end the instance is: "gui" or "server"
  phase,       \* "init", "running" or "exited"
  writable,    \* whether open(CONFIG_FILE, 'w') succeeds
  cfgFile,     \* CONFIG_FILE on disk
  repositories,\* WorkMonitorGUI.repositories
  repo_tree,   \* rows of the GUI Treeview: <<checkbox, path>>
  response,    \* the repository list of the server's last list response
  lastOp       \* the last handler that ran, its input and its outcome

repoVars == <<frontend, phase, writable, cfgFile, repositories, repo_tree,
              response, lastOp>>

VARIABLES
  \* --- startWork / stopWork / tabulateWork handlers ---
  cmdPc,       \* "idle", "loop" (inside the for loop of a batch) or "done"
  cmdFe,       \* the front-end whose handler runs: "gui" or "server"
  cmdName,     \* "startWork", "stopWork" or "tabulateWork"
  batch,       \* the repositories of the request, in order
  invoked,     \* the paths subprocess.run was called with, in order
  outcomes,    \* what each of those calls did
  errors,      \* the server handler's local errors list
  results,     \* the server handler's local results list
  dialogs,     \* message boxes the GUI has shown
  reply,       \* the server's response, once sent
  tab          \* the last tabulateWork request and what it did

cmdVars == <<cmdPc, cmdFe, cmdName, batch, invoked, outcomes, errors, results,
             dialogs, reply, tab>>

VARIABLES
  \* --- one GUI instance and one server instance over the same CONFIG_FILE ---
  lockHeld,    \* the front-end whose instance holds the flock of each lock file
  inst,        \* each front-end's instance: "off", "running" or "refused"
  thr          \* the server's request threads, each inside add_repository

concVars == <<lockHeld, inst, thr>>

vars == <<lockVars, repoVars, cmdVars, concVars>>

\* ------------------------------------------------------------------------
\* SingleInstance and main
\* ------------------------------------------------------------------------
LockInit ==
  /\ pc = [p \in Procs |-> "start"]
  /\ lock_fd = [p \in Procs |-> None]
  /\ lockPath = None
  /\ content = [i \in Procs |-> None]
  /\ flockOwner = [i \in Procs |-> None]
  /\ acquired = [p \in Procs |-> FALSE]
  /\ notified = [p \in Procs |-> FALSE]
  /\ exitStatus = [p \in Procs |-> -1]
  /\ loadedCfg = [p \in Procs |-> FALSE]
  /\ releaseRan = [p \in Procs |-> FALSE]
  /\ excType = [p \in Procs |-> "none"]
  /\ flockCalls = [p \in Procs |-> 0]
  /\ releaseError = [p \in Procs |-> "none"]

\* An inode lives while the path names it or a descriptor is open on it;
\* its content is gone with it.
Referenced(i, fds, path) == path = i \/ \E q \in Procs : fds[q] = i

Collected(fds, path) ==
  [i \in Procs |-> IF Referenced(i, fds, path) THEN content[i] ELSE None]

\* The lowest inode number that is not in use.
FreshInode ==
  CHOOSE i \in Procs :
    /\ ~Referenced(i, lock_fd, lockPath)
    /\ \A j \in Procs : j < i => Referenced(j, lock_fd, lockPath)

\* The user starts the program (again): a new process takes the slot of
\* one that has ended.
Launch(p) ==
  /\ pc[p] \in {"exited", "killed"}
  /\ pc' = [pc EXCEPT ![p] = "start"]
  /\ acquired' = [acquired EXCEPT ![p] = FALSE]
  /\ notified' = [notified EXCEPT ![p] = FALSE]
  /\ exitStatus' = [exitStatus EXCEPT ![p] = -1]
  /\ loadedCfg' = [loadedCfg EXCEPT ![p] = FALSE]
  /\ releaseRan' = [releaseRan EXCEPT ![p] = FALSE]
  /\ excType' = [excType EXCEPT ![p] = "none"]
  /\ flockCalls' = [flockCalls EXCEPT ![p] = 0]
  /\ releaseError' = [releaseError EXCEPT ![p] = "none"]
  /\ UNCHANGED <<lock_fd, lockPath, content, flockOwner>>
  /\ UNCHANGED <<repoVars, cmdVars, concVars>>

\* The kernel drops the flock of a process when its descriptor goes away.
DropLocksOf(p) == [i \in Procs |-> IF flockOwner[i] = p THEN None ELSE flockOwner[i]]

\* self.lock_file.parent.mkdir(parents=True, exist_ok=True)
Mkdir(p) ==
  /\ pc[p] = "start"
  /\ pc' = [pc EXCEPT ![p] = "open"]
  /\ UNCHANGED <<lock_fd, lockPath, content, flockOwner, acquired, notified,
                 exitStatus, loadedCfg, releaseRan, excType, flockCalls>>
  /\ UNCHANGED releaseError
  /\ UNCHANGED <<repoVars, cmdVars, concVars>>

\* self.lock_fd = open(self.lock_file, 'w'): creates the file when the path
\* is absent, truncates the inode the path names otherwise.
OpenInode(p) == IF lockPath = None THEN FreshInode ELSE lockPath

OpenLock(p) ==
  /\ pc[p] = "open"
  /\ lock_fd' = [lock_fd EXCEPT ![p] = OpenInode(p)]
  /\ lockPath' = OpenInode(p)
  /\ content' = [content EXCEPT ![OpenInode(p)] = None]
  /\ pc' = [pc EXCEPT ![p] = "flock"]
  /\ UNCHANGED <<flockOwner, acquired, notified, exitStatus, loadedCfg,
                 releaseRan, excType, flockCalls>>
  /\ UNCHANGED releaseError
  /\ UNCHANGED <<repoVars, cmdVars, concVars>>

\* fcntl.flock(fd, LOCK_EX | LOCK_NB): succeeds iff no other open file
\* description holds the lock of that inode; raises OSError otherwise.
FlockSucceeds(p) == flockOwner[lock_fd[p]] = None

Flock(p) ==
  /\ pc[p] = "flock"
  /\ flockCalls' = [flockCalls EXCEPT ![p] = @ + 1]
  /\ IF FlockSucceeds(p)
       THEN /\ flockOwner' = [flockOwner EXCEPT ![lock_fd[p]] = p]
            /\ pc' = [pc EXCEPT ![p] = "write"]
       ELSE /\ flockOwner' = flockOwner
            /\ pc' = [pc EXCEPT ![p] = "except"]
  /\ UNCHANGED <<lock_fd, lockPath, content, acquired, notified, exitStatus,
                 loadedCfg, releaseRan, excType>>
  /\ UNCHANGED releaseError
  /\ UNCHANGED <<repoVars, cmdVars, concVars>>

\* self.lock_fd.write(str(os.getpid())); self.lock_fd.flush(); return self
WritePid(p) ==
  /\ pc[p] = "write"
  /\ content' = [content EXCEPT ![lock_fd[p]] = p]
  /\ acquired' = [acquired EXCEPT ![p] = TRUE]
  /\ pc' = [pc EXCEPT ![p] = "body"]
  /\ UNCHANGED <<lock_fd, lockPath, flockOwner, notified, exitStatus,
                 loadedCfg, releaseRan, excType, flockCalls>>
  /\ UNCHANGED releaseError
  /\ UNCHANGED <<repoVars, cmdVars, concVars>>

\* AlreadyRunning without the sys.exit(1): the message is shown and the
\* with block is entered all the same.
AlreadyRunning_NoExit(p) ==
  /\ pc[p] = "except"
  /\ notified' = [notified EXCEPT ![p] = TRUE]
  /\ pc' = [pc EXCEPT ![p] = "body"]
  /\ UNCHANGED <<lock_fd, lockPath, content, flockOwner, acquired, exitStatus,
                 loadedCfg, releaseRan, excType, flockCalls>>
  /\ UNCHANGED releaseError
  /\ UNCHANGED <<repoVars, cmdVars, concVars>>

\* except (IOError, OSError): show "already running"; sys.exit(1).
\* SystemExit leaves __enter__, so the with statement never calls __exit__;
\* the descriptor is closed by process exit.
AlreadyRunning(p) ==
  /\ pc[p] = "except"
  /\ notified' = [notified EXCEPT ![p] = TRUE]
  /\ exitStatus' = [exitStatus EXCEPT ![p] = 1]
  /\ lock_fd' = [lock_fd EXCEPT ![p] = None]
  /\ flockOwner' = DropLocksOf(p)
  /\ pc' = [pc EXCEPT ![p] = "exited"]
  /\ content' = Collected(lock_fd', lockPath)
  /\ UNCHANGED <<lockPath, acquired, loadedCfg, releaseRan, excType,
                 flockCalls>>
  /\ UNCHANGED releaseError
  /\ UNCHANGED <<repoVars, cmdVars, concVars>>

\* The body of the with block: WorkMonitorGUI(root) loads the configuration
\* and the main loop runs (app.run in the server).
EnterBody(p) ==
  /\ pc[p] = "body"
  /\ loadedCfg' = [loadedCfg EXCEPT ![p] = TRUE]
  /\ pc' = [pc EXCEPT ![p] = "running"]
  /\ UNCHANGED <<lock_fd, lockPath, content, flockOwner, acquired, notified,
                 exitStatus, releaseRan, excType, flockCalls>>
  /\ UNCHANGED releaseError
  /\ UNCHANGED <<repoVars, cmdVars, concVars>>

\* The with block is left: the main loop returns, an exception escapes the
\* body, or SIGINT is delivered as KeyboardInterrupt.  __exit__ starts.
LeaveBody(p, how) ==
  /\ pc[p] = "running"
  /\ excType' = [excType EXCEPT ![p] = how]
  /\ pc' = [pc EXCEPT ![p] = "unlock"]
  /\ UNCHANGED <<lock_fd, lockPath, content, flockOwner, acquired, notified,
                 exitStatus, loadedCfg, releaseRan, flockCalls>>
  /\ UNCHANGED releaseError
  /\ UNCHANGED <<repoVars, cmdVars, concVars>>

ExitNormal(p) == LeaveBody(p, "none")
RaiseError(p) == LeaveBody(p, "error")
SigInt(p) == LeaveBody(p, "interrupt")

\* SIGTERM: no handler is installed, so the default disposition ends the
\* process without unwinding the with block.  The kernel closes the
\* descriptor (the flock goes with it); the file stays on disk.
SigTerm(p) ==
  /\ pc[p] = "running"
  /\ lock_fd' = [lock_fd EXCEPT ![p] = None]
  /\ flockOwner' = DropLocksOf(p)
  /\ exitStatus' = [exitStatus EXCEPT ![p] = 143]
  /\ pc' = [pc EXCEPT ![p] = "killed"]
  /\ content' = Collected(lock_fd', lockPath)
  /\ UNCHANGED <<lockPath, acquired, notified, loadedCfg, releaseRan,
                 excType, flockCalls>>
  /\ UNCHANGED releaseError
  /\ UNCHANGED <<repoVars, cmdVars, concVars>>

\* __exit__: fcntl.flock(fd, LOCK_UN)
Unlock(p) ==
  /\ pc[p] = "unlock"
  /\ lock_fd[p] # None
  /\ flockOwner' = DropLocksOf(p)
  /\ pc' = [pc EXCEPT ![p] = "close"]
  /\ UNCHANGED <<lock_fd, lockPath, content, acquired, notified, exitStatus,
                 loadedCfg, releaseRan, excType, flockCalls>>
  /\ UNCHANGED releaseError
  /\ UNCHANGED <<repoVars, cmdVars, concVars>>

\* __exit__: self.lock_fd.close()
CloseFd(p) ==
  /\ pc[p] = "close"
  /\ lock_fd' = [lock_fd EXCEPT ![p] = None]
  /\ pc' = [pc EXCEPT ![p] = "exists"]
  /\ content' = Collected(lock_fd', lockPath)
  /\ UNCHANGED <<lockPath, flockOwner, acquired, notified, exitStatus,
                 loadedCfg, releaseRan, excType, flockCalls>>
  /\ UNCHANGED releaseError
  /\ UNCHANGED <<repoVars, cmdVars, concVars>>

\* StatusAfter for an __exit__ that returns True: the pending exception is
\* suppressed and the program ends as if nothing had happened.
StatusAfter_Suppresses(p) == 0

\* Exit status once __exit__ has returned (it returns None, so a pending
\* exception propagates).
StatusAfter(p) == IF excType[p] = "none" THEN 0 ELSE 1

\* __exit__: if self.lock_file.exists(): ...
Exists(p) ==
  /\ pc[p] = "exists"
  /\ IF lockPath # None
       THEN /\ pc' = [pc EXCEPT ![p] = "unlink"]
            /\ UNCHANGED <<releaseRan, exitStatus>>
       ELSE /\ pc' = [pc EXCEPT ![p] = "exited"]
            /\ releaseRan' = [releaseRan EXCEPT ![p] = TRUE]
            /\ exitStatus' = [exitStatus EXCEPT ![p] = StatusAfter(p)]
  /\ UNCHANGED <<lock_fd, lockPath, content, flockOwner, acquired, notified,
                 loadedCfg, excType, flockCalls>>
  /\ UNCHANGED releaseError
  /\ UNCHANGED <<repoVars, cmdVars, concVars>>

\* __exit__: self.lock_file.unlink() removes whatever inode the path names
\* now; FileNotFoundError is swallowed by the bare except.
Unlink(p) ==
  /\ pc[p] = "unlink"
  /\ lockPath' = None
  /\ releaseRan' = [releaseRan EXCEPT ![p] = TRUE]
  /\ exitStatus' = [exitStatus EXCEPT ![p] = StatusAfter(p)]
  /\ pc' = [pc EXCEPT ![p] = "exited"]
  /\ content' = Collected(lock_fd, None)
  /\ releaseError' = [releaseError EXCEPT ![p] =
                        IF lockPath = None THEN "unlink" ELSE @]
  /\ UNCHANGED <<lock_fd, flockOwner, acquired, notified, loadedCfg,
                 excType, flockCalls>>
  /\ UNCHANGED <<repoVars, cmdVars, concVars>>

\* The statement of __exit__ the process is at.
ReleaseStep(p) ==
  CASE pc[p] = "unlock" -> "flock"
    [] pc[p] = "close"  -> "close"
    [] pc[p] = "exists" -> "exists"
    [] pc[p] = "unlink" -> "unlink"

\* A statement of __exit__ raises (flock or close: an I/O error of the
\* file system; exists or unlink: PermissionError on the directory).  The
\* bare  except: pass  ends __exit__, which returns None; the statements
\* after the one that raised are skipped, the with statement is left and the
\* process ends (the kernel closes the descriptor and drops its flock).
ReleaseStepFails(p) ==
  /\ pc[p] \in {"unlock", "close", "exists", "unlink"}
  /\ releaseError' = [releaseError EXCEPT ![p] = ReleaseStep(p)]
  /\ releaseRan' = [releaseRan EXCEPT ![p] = TRUE]
  /\ exitStatus' = [exitStatus EXCEPT ![p] = StatusAfter(p)]
  /\ pc' = [pc EXCEPT ![p] = "exited"]
  /\ lock_fd' = [lock_fd EXCEPT ![p] = None]
  /\ flockOwner' = DropLocksOf(p)
  /\ content' = Collected(lock_fd', lockPath)
  /\ UNCHANGED <<lockPath, acquired, notified, loadedCfg, excType, flockCalls>>
  /\ UNCHANGED <<repoVars, cmdVars, concVars>>

LockNext ==
  \E p \in Procs :
    \/ Launch(p)
    \/ Mkdir(p)
    \/ OpenLock(p)
    \/ Flock(p)
    \/ WritePid(p)
    \/ AlreadyRunning(p)
    \/ EnterBody(p)
    \/ ExitNormal(p)
    \/ RaiseError(p)
    \/ SigInt(p)
    \/ SigTerm(p)
    \/ Unlock(p)
    \/ CloseFd(p)
    \/ Exists(p)
    \/ Unlink(p)

\* ------------------------------------------------------------------------
\* Paths.  A path string is the sequence of its components after the root;
\* <<>> stands for the empty string (the root itself is never an input).
\* ------------------------------------------------------------------------
MaxPayload == 2

RawPaths == { <<>>, <<"a">>, <<"a", ".">>, <<"b">>, <<"c", "..", "b">>, <<"c">> }

\* Directories that hold a .git subdirectory.
GitDirs == { <<"a">>, <<"b">> }

\* os.path.abspath of a rooted path: normpath drops "" and "." components
\* and lets ".." remove the component before it (nothing at the root).
RECURSIVE NormInto(_, _)
NormInto(comps, acc) ==
  IF comps = <<>> THEN acc
  ELSE LET c == Head(comps) IN
       IF c = "" \/ c = "." THEN NormInto(Tail(comps), acc)
       ELSE IF c = ".."
         THEN NormInto(Tail(comps),
                       IF acc = <<>> THEN acc ELSE SubSeq(acc, 1, Len(acc) - 1))
         ELSE NormInto(Tail(comps), Append(acc, c))

Abspath(raw) == NormInto(raw, <<>>)

\* IsGitRepo without the .git test.
IsGitRepo_Any(path) == TRUE

\* os.path.isdir(os.path.join(path, '.git'))
IsGitRepo(path) == path \in GitDirs

Entry(path, sel) == [path |-> path, selected |-> sel]

\* AddEntry putting the new entry first.
AddEntry_Prepends(list, path) == <<Entry(path, FALSE)>> \o list

\* repositories.append({'path': path, 'selected': False})
AddEntry(list, path) == Append(list, Entry(path, FALSE))

\* HasPath that never finds the path.
HasPath_Never(list, path) == FALSE

\* any(r['path'] == path for r in repositories)
HasPath(list, path) == \E i \in 1..Len(list) : list[i].path = path

\* [r for r in repositories if r['path'] != path]
RECURSIVE WithoutPath(_, _)
WithoutPath(list, path) ==
  IF list = <<>> THEN <<>>
  ELSE IF Head(list).path = path THEN WithoutPath(Tail(list), path)
       ELSE <<Head(list)>> \o WithoutPath(Tail(list), path)

\* ------------------------------------------------------------------------
\* The configuration file and its JSON encoding
\* ------------------------------------------------------------------------
MissingFile == [kind |-> "missing", repositories |-> <<>>]
GarbageFile == [kind |-> "garbage", repositories |-> <<>>]
EmptyObject == [kind |-> "nokey", repositories |-> <<>>]

\* A file that holds valid JSON which is not an object (a bare list, as in
\* `[]`): json.load returns a list, which has no .get.
ArrayFile == [kind |-> "array", repositories |-> <<>>]

\* JsonDumpEntry writing every flag as false.
JsonDumpEntry_DropsFlag(e) == [path |-> e.path, selected |-> "false"]

\* json.dump of one entry: the path as a JSON string, the flag as a literal.
JsonDumpEntry(e) ==
  [path |-> e.path, selected |-> IF e.selected THEN "true" ELSE "false"]

\* json.dump({'repositories': repositories}, f, indent=2)
JsonDump(list) ==
  [kind |-> "object",
   repositories |-> [i \in 1..Len(list) |-> JsonDumpEntry(list[i])]]

\* json.load of one entry.
JsonLoadEntry(j) == [path |-> j.path, selected |-> (j.selected = "true")]

\* load_repositories raises: data.get on a value that is not a dict is an
\* AttributeError, which  except (json.JSONDecodeError, IOError)  lets through.
LoadRaises(file) == file.kind = "array"

\* load_repositories, when it returns: [] when the file is missing or is
\* not JSON; data.get('repositories', []) otherwise.
LoadRepositories(file) ==
  IF file.kind = "object"
    THEN [i \in 1..Len(file.repositories) |-> JsonLoadEntry(file.repositories[i])]
    ELSE <<>>

\* save_repositories: open(CONFIG_FILE, 'w') and dump; on IOError the file
\* is left as it was.
SavedFile(list) == IF writable THEN JsonDump(list) ELSE cfgFile

\* update_repo_list: one row per entry.
TreeRow(e) == << IF e.selected THEN "checked" ELSE "unchecked", e.path >>

TreeOf(list) == [i \in 1..Len(list) |-> TreeRow(list[i])]

InitFiles ==
  { MissingFile, GarbageFile, EmptyObject,
    JsonDump(<<>>),
    JsonDump(<<Entry(<<"a">>, TRUE)>>),
    JsonDump(<<Entry(<<"b">>, FALSE), Entry(<<"a">>, TRUE)>>) }

NoResponse == [sent |-> FALSE, repositories |-> <<>>]

\* jsonify({'repositories': list})
ListResponse(list) == [sent |-> TRUE, repositories |-> list]

NoOp == [op |-> "none", arg |-> <<>>, status |-> "none", errors |-> <<>>,
         added |-> 0, saves |-> 0, before |-> <<>>, fileBefore |-> MissingFile]

Op(op, arg, status, errs, added, saves, before) ==
  [op |-> op, arg |-> arg, status |-> status, errors |-> errs,
   added |-> added, saves |-> saves, before |-> before, fileBefore |-> cfgFile]

RepoIdle ==
  /\ frontend = "none"
  /\ phase = "init"
  /\ writable = TRUE
  /\ cfgFile = MissingFile
  /\ repositories = <<>>
  /\ repo_tree = <<>>
  /\ response = NoResponse
  /\ lastOp = NoOp

RepoInit ==
  /\ frontend \in {"gui", "server"}
  /\ phase = "init"
  /\ writable = TRUE
  /\ cfgFile \in InitFiles
  /\ repositories = <<>>
  /\ repo_tree = <<>>
  /\ response = NoResponse
  /\ lastOp = NoOp

\* Configuration files a front-end may find at start when the file was
\* not written by the program, and a disk that may refuse the write.
FaultFiles ==
  { MissingFile, GarbageFile, ArrayFile, JsonDump(<<Entry(<<"a">>, TRUE)>>) }

RepoInitFaults ==
  /\ frontend \in {"gui", "server"}
  /\ phase = "init"
  /\ writable \in BOOLEAN
  /\ cfgFile \in FaultFiles
  /\ repositories = <<>>
  /\ repo_tree = <<>>
  /\ response = NoResponse
  /\ lastOp = NoOp

\* ------------------------------------------------------------------------
\* WorkMonitorGUI (monitorWork.py)
\* ------------------------------------------------------------------------
GuiRunning == frontend = "gui" /\ phase = "running"

\* What a GUI handler that saved reports: the error dialog of
\* save_repositories when the write failed.
GuiSaveStatus == IF writable THEN "ok" ELSE "save_error"

\* WorkMonitorGUI.__init__: self.repositories = [], load_repositories,
\* update_repo_list.  An exception of load_repositories leaves __init__ and
\* main: the window never opens.
GuiStart ==
  /\ frontend = "gui" /\ phase = "init"
  /\ IF LoadRaises(cfgFile)
       THEN /\ repositories' = <<>>
            /\ repo_tree' = <<>>
            /\ phase' = "crashed"
            /\ lastOp' = Op("start", <<>>, "exception", <<>>, 0, 0, <<>>)
       ELSE /\ repositories' = LoadRepositories(cfgFile)
            /\ repo_tree' = TreeOf(LoadRepositories(cfgFile))
            /\ phase' = "running"
            /\ lastOp' = Op("start", <<>>, "ok", <<>>, 0, 0, <<>>)
  /\ UNCHANGED <<frontend, writable, cfgFile, response>>
  /\ UNCHANGED <<lockVars, cmdVars, concVars>>

\* add_repository: the path comes from the directory dialog or the text
\* prompt; an empty answer does nothing.
GuiAdd(raw) ==
  /\ GuiRunning
  /\ LET path == Abspath(raw) IN
     IF raw = <<>>
       THEN /\ lastOp' = Op("add", raw, "cancelled", <<>>, 0, 0, repositories)
            /\ UNCHANGED <<repositories, repo_tree, cfgFile>>
     ELSE IF ~IsGitRepo(path)
       THEN /\ lastOp' = Op("add", raw, "error", <<>>, 0, 0, repositories)
            /\ UNCHANGED <<repositories, repo_tree, cfgFile>>
     ELSE IF HasPath(repositories, path)
       THEN /\ lastOp' = Op("add", raw, "warning", <<>>, 0, 0, repositories)
            /\ UNCHANGED <<repositories, repo_tree, cfgFile>>
     ELSE /\ repositories' = AddEntry(repositories, path)
          /\ cfgFile' = SavedFile(repositories')
          /\ repo_tree' = TreeOf(repositories')
          /\ lastOp' = Op("add", raw, GuiSaveStatus, <<>>, 1, 1, repositories)
  /\ UNCHANGED <<frontend, phase, writable, response>>
  /\ UNCHANGED <<lockVars, cmdVars, concVars>>

\* The entries left once every path of the chosen rows has been filtered out.
RECURSIVE WithoutPaths(_, _)
WithoutPaths(list, paths) ==
  IF list = <<>> THEN <<>>
  ELSE IF Head(list).path \in paths THEN WithoutPaths(Tail(list), paths)
       ELSE <<Head(list)>> \o WithoutPaths(Tail(list), paths)

\* remove_repository: rows is the Treeview selection.
GuiRemove(rows) ==
  /\ GuiRunning
  /\ rows \subseteq DOMAIN repo_tree
  /\ IF rows = {}
       THEN /\ lastOp' = Op("remove", rows, "warning", <<>>, 0, 0, repositories)
            /\ UNCHANGED <<repositories, repo_tree, cfgFile>>
       ELSE /\ repositories' =
                 WithoutPaths(repositories, {repo_tree[i][2] : i \in rows})
            /\ cfgFile' = SavedFile(repositories')
            /\ repo_tree' = TreeOf(repositories')
            /\ lastOp' = Op("remove", rows, GuiSaveStatus, <<>>, 0, 1, repositories)
  /\ UNCHANGED <<frontend, phase, writable, response>>
  /\ UNCHANGED <<lockVars, cmdVars, concVars>>

\* The first entry whose path is the given one gets the given flag
\* (for repo in self.repositories: if repo['path'] == path: ...; break).
RECURSIVE SetFirst(_, _, _)
SetFirst(list, path, sel) ==
  IF list = <<>> THEN <<>>
  ELSE IF Head(list).path = path
         THEN <<Entry(path, sel)>> \o Tail(list)
         ELSE <<Head(list)>> \o SetFirst(Tail(list), path, sel)

\* on_tree_click on the checkbox cell of row i.
GuiToggle(i) ==
  /\ GuiRunning
  /\ i \in DOMAIN repo_tree
  /\ LET new_state == IF repo_tree[i][1] = "checked" THEN "unchecked" ELSE "checked"
         path == repo_tree[i][2]
     IN /\ repo_tree' = [repo_tree EXCEPT ![i] = <<new_state, path>>]
        /\ repositories' = SetFirst(repositories, path, new_state = "checked")
        /\ cfgFile' = SavedFile(repositories')
        /\ lastOp' = Op("toggle", i, GuiSaveStatus, <<>>, 0, 1, repositories)
  /\ UNCHANGED <<frontend, phase, writable, response>>
  /\ UNCHANGED <<lockVars, cmdVars, concVars>>

SetAll(list, sel) == [i \in 1..Len(list) |-> Entry(list[i].path, sel)]

\* select_all / deselect_all
GuiSetAll(op, sel) ==
  /\ GuiRunning
  /\ repositories' = SetAll(repositories, sel)
  /\ cfgFile' = SavedFile(repositories')
  /\ repo_tree' = TreeOf(repositories')
  /\ lastOp' = Op(op, <<>>, GuiSaveStatus, <<>>, 0, 1, repositories)
  /\ UNCHANGED <<frontend, phase, writable, response>>
  /\ UNCHANGED <<lockVars, cmdVars, concVars>>

GuiSelectAll == GuiSetAll("select_all", TRUE)
GuiDeselectAll == GuiSetAll("deselect_all", FALSE)

\* on_closing: save_repositories, then destroy the window; mainloop returns.
GuiClose ==
  /\ GuiRunning
  /\ cfgFile' = SavedFile(repositories)
  /\ phase' = "exited"
  /\ lastOp' = Op("close", <<>>, GuiSaveStatus, <<>>, 0, 1, repositories)
  /\ UNCHANGED <<frontend, writable, repositories, repo_tree, response>>
  /\ UNCHANGED <<lockVars, cmdVars, concVars>>

\* The main loop ends without on_closing (an exception or a signal ends
\* root.mainloop()).
GuiAbort ==
  /\ GuiRunning
  /\ phase' = "exited"
  /\ lastOp' = Op("abort", <<>>, "none", <<>>, 0, 0, repositories)
  /\ UNCHANGED <<frontend, writable, cfgFile, repositories, repo_tree, response>>
  /\ UNCHANGED <<lockVars, cmdVars, concVars>>

GuiNext ==
  \/ GuiStart
  \/ \E raw \in RawPaths : GuiAdd(raw)
  \/ \E rows \in SUBSET DOMAIN repo_tree : GuiRemove(rows)
  \/ \E i \in DOMAIN repo_tree : GuiToggle(i)
  \/ GuiSelectAll
  \/ GuiDeselectAll
  \/ GuiClose
  \/ GuiAbort

\* ------------------------------------------------------------------------
\* The web server's request handlers (monitorWork_server.py)
\* ------------------------------------------------------------------------
SrvRunning == frontend = "server" /\ phase = "running"

SeqsUpTo(S, n) == UNION { [1..k -> S] : k \in 0..n }

\* Entries a client may send to /api/repositories/update.
UpdateEntries ==
  { Entry(<<"a">>, FALSE), Entry(<<"a">>, TRUE), Entry(<<"c">>, FALSE) }

\* Paths a client may send to /api/repositories/batch-add.
BatchRawPaths == { <<>>, <<"a", ".">>, <<"c">> }

\* app.run starts serving.
SrvStart ==
  /\ frontend = "server" /\ phase = "init"
  /\ phase' = "running"
  /\ lastOp' = Op("start", <<>>, "ok", <<>>, 0, 0, <<>>)
  /\ UNCHANGED <<frontend, writable, cfgFile, repositories, repo_tree, response>>
  /\ UNCHANGED <<lockVars, cmdVars, concVars>>

\* GET /api/repositories.  An exception that leaves a handler is answered
\* by the framework with status 500.
SrvGet ==
  /\ SrvRunning
  /\ IF LoadRaises(cfgFile)
       THEN /\ lastOp' = Op("get", <<>>, 500, <<>>, 0, 0, <<>>)
            /\ UNCHANGED response
       ELSE /\ response' = ListResponse(LoadRepositories(cfgFile))
            /\ lastOp' = Op("get", <<>>, 200, <<>>, 0, 0, LoadRepositories(cfgFile))
  /\ UNCHANGED <<frontend, phase, writable, cfgFile, repositories, repo_tree>>
  /\ UNCHANGED <<lockVars, cmdVars, concVars>>

\* POST /api/repositories
SrvAdd(raw) ==
  /\ SrvRunning
  /\ LET path == Abspath(raw)
         loaded == LoadRepositories(cfgFile)
     IN
     IF raw = <<>>
       THEN /\ lastOp' = Op("add", raw, 400, <<>>, 0, 0, loaded)
            /\ UNCHANGED <<cfgFile, response>>
     ELSE IF ~IsGitRepo(path)
       THEN /\ lastOp' = Op("add", raw, 400, <<>>, 0, 0, loaded)
            /\ UNCHANGED <<cfgFile, response>>
     ELSE IF LoadRaises(cfgFile)
       THEN /\ lastOp' = Op("add", raw, 500, <<>>, 0, 0, <<>>)
            /\ UNCHANGED <<cfgFile, response>>
     ELSE IF HasPath(loaded, path)
       THEN /\ lastOp' = Op("add", raw, 400, <<>>, 0, 0, loaded)
            /\ UNCHANGED <<cfgFile, response>>
     ELSE /\ cfgFile' = SavedFile(AddEntry(loaded, path))
          /\ response' = ListResponse(AddEntry(loaded, path))
          /\ lastOp' = Op("add", raw, 200, <<>>, 1, 1, loaded)
  /\ UNCHANGED <<frontend, phase, writable, repositories, repo_tree>>
  /\ UNCHANGED <<lockVars, cmdVars, concVars>>

\* DELETE /api/repositories: the path is compared as it was sent.
SrvRemove(raw) ==
  /\ SrvRunning
  /\ LET loaded == LoadRepositories(cfgFile) IN
     IF raw = <<>>
       THEN /\ lastOp' = Op("remove", raw, 400, <<>>, 0, 0, loaded)
            /\ UNCHANGED <<cfgFile, response>>
     ELSE IF LoadRaises(cfgFile)
       THEN /\ lastOp' = Op("remove", raw, 500, <<>>, 0, 0, <<>>)
            /\ UNCHANGED <<cfgFile, response>>
       ELSE /\ cfgFile' = SavedFile(WithoutPath(loaded, raw))
            /\ response' = ListResponse(WithoutPath(loaded, raw))
            /\ lastOp' = Op("remove", raw, 200, <<>>, 0, 1, loaded)
  /\ UNCHANGED <<frontend, phase, writable, repositories, repo_tree>>
  /\ UNCHANGED <<lockVars, cmdVars, concVars>>

\* POST /api/repositories/clear: save [], load again to verify.
SrvClear ==
  /\ SrvRunning
  /\ cfgFile' = SavedFile(<<>>)
  /\ IF LoadRaises(cfgFile') \/ Len(LoadRepositories(cfgFile')) > 0
       THEN /\ lastOp' = Op("clear", <<>>, 500, <<>>, 0, 1, LoadRepositories(cfgFile))
            /\ UNCHANGED response
       ELSE /\ lastOp' = Op("clear", <<>>, 200, <<>>, 0, 1, LoadRepositories(cfgFile))
            /\ response' = ListResponse(<<>>)
  /\ UNCHANGED <<frontend, phase, writable, repositories, repo_tree>>
  /\ UNCHANGED <<lockVars, cmdVars, concVars>>

\* The loop of batch_add_repositories over the paths of the request.
RECURSIVE BatchLoop(_, _, _, _)
BatchLoop(paths, list, added, errs) ==
  IF paths = <<>>
    THEN [repositories |-> list, added |-> added, errors |-> errs]
  ELSE LET path == Abspath(Head(paths)) IN
       IF Head(paths) = <<>>
         THEN BatchLoop(Tail(paths), list, added, errs)
       ELSE IF ~IsGitRepo(path)
         THEN BatchLoop(Tail(paths), list, added, Append(errs, path))
       ELSE IF HasPath(list, path)
         THEN BatchLoop(Tail(paths), list, added, errs)
       ELSE BatchLoop(Tail(paths), AddEntry(list, path), added + 1, errs)

\* POST /api/repositories/batch-add
SrvBatchAdd(paths) ==
  /\ SrvRunning
  /\ LET loaded == LoadRepositories(cfgFile)
         out == BatchLoop(paths, loaded, 0, <<>>)
     IN IF LoadRaises(cfgFile)
          THEN /\ lastOp' = Op("batch_add", paths, 500, <<>>, 0, 0, <<>>)
               /\ UNCHANGED <<cfgFile, response>>
          ELSE /\ cfgFile' = SavedFile(out.repositories)
               /\ response' = ListResponse(out.repositories)
               /\ lastOp' = Op("batch_add", paths, 200, out.errors, out.added, 1, loaded)
  /\ UNCHANGED <<frontend, phase, writable, repositories, repo_tree>>
  /\ UNCHANGED <<lockVars, cmdVars, concVars>>

\* POST /api/repositories/update: the list of the request is saved as sent.
SrvUpdate(list) ==
  /\ SrvRunning
  /\ cfgFile' = SavedFile(list)
  /\ response' = ListResponse(list)
  /\ lastOp' = Op("update", list, 200, <<>>, 0, 1, LoadRepositories(cfgFile))
  /\ UNCHANGED <<frontend, phase, writable, repositories, repo_tree>>
  /\ UNCHANGED <<lockVars, cmdVars, concVars>>

\* The server process ends (Ctrl+C ends app.run).
SrvStop ==
  /\ SrvRunning
  /\ phase' = "exited"
  /\ lastOp' = Op("stop", <<>>, "none", <<>>, 0, 0, LoadRepositories(cfgFile))
  /\ UNCHANGED <<frontend, writable, cfgFile, repositories, repo_tree, response>>
  /\ UNCHANGED <<lockVars, cmdVars, concVars>>

SrvNext ==
  \/ SrvStart
  \/ SrvGet
  \/ \E raw \in RawPaths : SrvAdd(raw)
  \/ \E raw \in RawPaths : SrvRemove(raw)
  \/ SrvClear
  \/ \E paths \in SeqsUpTo(BatchRawPaths, MaxPayload) : SrvBatchAdd(paths)
  \/ \E list \in SeqsUpTo(UpdateEntries, MaxPayload) : SrvUpdate(list)
  \/ SrvStop

RepoNext == GuiNext \/ SrvNext

\* ------------------------------------------------------------------------
\* start_work / stop_work
\* ------------------------------------------------------------------------
MaxBatch == 3

NoReply == [status |-> 0, errors |-> <<>>, results |-> <<>>, error |-> "none"]

NoTab == [fe |-> "none", selected |-> <<>>, start |-> <<>>, end |-> <<>>,
          out |-> "", spawned |-> 0, argv |-> <<>>, status |-> "none"]

CmdInit ==
  /\ cmdPc = "idle"
  /\ cmdFe = "none"
  /\ cmdName = "none"
  /\ batch = <<>>
  /\ invoked = <<>>
  /\ outcomes = <<>>
  /\ errors = <<>>
  /\ results = <<>>
  /\ dialogs = <<>>
  /\ reply = NoReply
  /\ tab = NoTab

Report(kind, path) == [kind |-> kind, path |-> path]

\* The handler starts: an empty selection is refused (a warning dialog in
\* the GUI, status 400 from the server).
BatchBegin(fe, name, sel) ==
  /\ cmdPc = "idle"
  /\ cmdFe' = fe
  /\ cmdName' = name
  /\ batch' = sel
  /\ IF sel = <<>>
       THEN /\ cmdPc' = "done"
            /\ dialogs' = IF fe = "gui" THEN <<Report("warning", <<>>)>> ELSE <<>>
            /\ reply' = IF fe = "server"
                          THEN [NoReply EXCEPT !.status = 400, !.error = "none_selected"]
                          ELSE NoReply
       ELSE /\ cmdPc' = "loop"
            /\ dialogs' = <<>>
            /\ reply' = NoReply
  /\ invoked' = <<>>
  /\ outcomes' = <<>>
  /\ errors' = <<>>
  /\ results' = <<>>
  /\ UNCHANGED tab
  /\ UNCHANGED <<lockVars, repoVars, concVars>>

\* AfterRun with a return in the TimeoutExpired branch as well.
AfterRun_TimeoutStops(outcome) ==
  CASE outcome = "ok"      -> [report |-> "none", stop |-> FALSE]
    [] outcome = "nonzero" -> [report |-> "failed", stop |-> FALSE]
    [] outcome = "missing" -> [report |-> "not_found", stop |-> TRUE]
    [] outcome = "timeout" -> [report |-> "timeout", stop |-> TRUE]

\* What the handler does once subprocess.run has ended one way or another:
\* "stop" is the return statement inside the loop.
AfterRun(outcome) ==
  CASE outcome = "ok"      -> [report |-> "none", stop |-> FALSE]
    [] outcome = "nonzero" -> [report |-> "failed", stop |-> FALSE]
    [] outcome = "missing" -> [report |-> "not_found", stop |-> TRUE]
    [] outcome = "timeout" -> [report |-> "timeout", stop |-> FALSE]

RunOutcomes == {"ok", "nonzero", "missing", "timeout"}

\* One iteration of  for repo_path in selected:  subprocess.run([cmd, repo_path]).
BatchRun(outcome) ==
  /\ cmdPc = "loop"
  /\ Len(invoked) < Len(batch)
  /\ LET repo_path == batch[Len(invoked) + 1]
         act == AfterRun(outcome)
     IN /\ invoked' = Append(invoked, repo_path)
        /\ outcomes' = Append(outcomes, outcome)
        /\ IF cmdFe = "gui"
             THEN /\ dialogs' = IF act.report = "none" THEN dialogs
                                ELSE Append(dialogs, Report(act.report,
                                       IF act.report = "not_found" THEN <<>> ELSE repo_path))
                  /\ UNCHANGED <<errors, results, reply>>
                  /\ cmdPc' = IF act.stop THEN "done" ELSE "loop"
             ELSE /\ errors' = IF act.report \in {"failed", "timeout"}
                                 THEN Append(errors, Report(act.report, repo_path))
                                 ELSE errors
                  /\ results' = IF act.report = "none" THEN Append(results, repo_path)
                                ELSE results
                  /\ reply' = IF act.stop
                                THEN [NoReply EXCEPT !.status = 500, !.error = "not_found"]
                                ELSE reply
                  /\ cmdPc' = IF act.stop THEN "done" ELSE "loop"
                  /\ UNCHANGED dialogs
  /\ UNCHANGED <<cmdFe, cmdName, batch, tab>>
  /\ UNCHANGED <<lockVars, repoVars, concVars>>

\* The loop has run out: the success dialog (GUI) or the summary (server).
BatchEnd ==
  /\ cmdPc = "loop"
  /\ Len(invoked) = Len(batch)
  /\ cmdPc' = "done"
  /\ IF cmdFe = "gui"
       THEN /\ dialogs' = Append(dialogs, Report("info", <<>>))
            /\ UNCHANGED reply
       ELSE /\ reply' = [status |-> 200, errors |-> errors, results |-> results,
                         error |-> "none"]
            /\ UNCHANGED dialogs
  /\ UNCHANGED <<cmdFe, cmdName, batch, invoked, outcomes, errors, results, tab>>
  /\ UNCHANGED <<lockVars, repoVars, concVars>>

\* ------------------------------------------------------------------------
\* Dates.  A date string is the sequence of its characters.
\* ------------------------------------------------------------------------
Digits == {"0", "1", "2", "3", "4", "5", "6", "7", "8", "9"}

DigitVal(c) ==
  CASE c = "0" -> 0 [] c = "1" -> 1 [] c = "2" -> 2 [] c = "3" -> 3
    [] c = "4" -> 4 [] c = "5" -> 5 [] c = "6" -> 6 [] c = "7" -> 7
    [] c = "8" -> 8 [] c = "9" -> 9

\* str.strip(): leading and trailing blanks removed.
RECURSIVE LStrip(_)
LStrip(s) == IF s # <<>> /\ Head(s) = " " THEN LStrip(Tail(s)) ELSE s

RECURSIVE RStrip(_)
RStrip(s) ==
  IF s # <<>> /\ s[Len(s)] = " " THEN RStrip(SubSeq(s, 1, Len(s) - 1)) ELSE s

Strip(s) == RStrip(LStrip(s))

IsLeap(y) == (y % 4 = 0 /\ y % 100 # 0) \/ y % 400 = 0

DaysInMonth(y, m) ==
  IF m = 2 THEN (IF IsLeap(y) THEN 29 ELSE 28)
  ELSE IF m \in {4, 6, 9, 11} THEN 30 ELSE 31

\* The character at position i, or "" past the end.
At(s, i) == IF i \in 1..Len(s) THEN s[i] ELSE ""

\* %m is the pattern 1[0-2]|0[1-9]|[1-9]; the "-" that follows decides
\* which alternative stands.  The result is the number of characters.
MonthWidth(s, i) ==
  IF /\ \/ (At(s, i) = "1" /\ At(s, i + 1) \in {"0", "1", "2"})
        \/ (At(s, i) = "0" /\ At(s, i + 1) \in Digits \ {"0"})
     /\ At(s, i + 2) = "-"
    THEN 2
  ELSE IF At(s, i) \in Digits \ {"0"} /\ At(s, i + 1) = "-" THEN 1
  ELSE 0

\* %d is the pattern 3[01]|[12]\d|0[1-9]|[1-9]| [1-9]; nothing follows it
\* in the format, so the first alternative that matches stands.
DayWidth(s, i) ==
  IF At(s, i) = "3" /\ At(s, i + 1) \in {"0", "1"} THEN 2
  ELSE IF At(s, i) \in {"1", "2"} /\ At(s, i + 1) \in Digits THEN 2
  ELSE IF At(s, i) = "0" /\ At(s, i + 1) \in Digits \ {"0"} THEN 2
  ELSE IF At(s, i) \in Digits \ {"0"} THEN 1
  ELSE IF At(s, i) = " " /\ At(s, i + 1) \in Digits \ {"0"} THEN 2
  ELSE 0

\* The number the digits of s at positions i..i+w-1 spell (a blank counts 0).
RECURSIVE NumAt(_, _, _)
NumAt(s, i, w) ==
  IF w = 0 THEN 0
  ELSE 10 * NumAt(s, i, w - 1)
         + (IF s[i + w - 1] = " " THEN 0 ELSE DigitVal(s[i + w - 1]))

\* datetime.strptime(s, "%Y-%m-%d") returns (TRUE) or raises ValueError
\* (FALSE): the pattern has to match at the start, nothing may remain
\* after it, and the fields have to name a day of the calendar.
Strptime(s) ==
  /\ \A i \in 1..4 : At(s, i) \in Digits
  /\ At(s, 5) = "-"
  /\ MonthWidth(s, 6) > 0
  /\ LET mw == MonthWidth(s, 6)
         dw == DayWidth(s, 6 + mw + 1)
     IN /\ dw > 0
        /\ Len(s) = 6 + mw + dw
        /\ NumAt(s, 1, 4) >= 1
        /\ NumAt(s, 6 + mw + 1, dw) <= DaysInMonth(NumAt(s, 1, 4), NumAt(s, 6, mw))

DateSamples ==
  { <<>>,
    <<"2", "0", "2", "4", "-", "0", "2", "-", "2", "9">>,
    <<"2", "0", "2", "3", "-", "0", "2", "-", "2", "9">>,
    <<"2", "0", "2", "4", "-", "1", "3", "-", "0", "1">>,
    <<"2", "0", "2", "4", "-", "1", "-", "5">>,
    <<" ", "2", "0", "2", "4", "-", "1", "2", "-", "3", "1", " ">>,
    <<"2", "0", "2", "4", "-", "0", "1", "-", "3", "2">>,
    <<"0", "1", "/", "0", "2", "/", "2", "0", "2", "4">>,
    <<" ", " ">> }

\* ------------------------------------------------------------------------
\* tabulate_work
\* ------------------------------------------------------------------------
\* validate_dates parsing the start date only.
GuiValidateDates_StartOnly(start, end) ==
  IF Strptime(Strip(start))
    THEN <<Strip(start), Strip(end)>>
    ELSE <<<<>>, <<>>>>

\* WorkMonitorGUI.validate_dates: the stripped strings, or (None, None)
\* after the error dialog.  None is the empty sequence here; `not x` is
\* true of both.
GuiValidateDates(start, end) ==
  IF Strptime(Strip(start)) /\ Strptime(Strip(end))
    THEN <<Strip(start), Strip(end)>>
    ELSE <<<<>>, <<>>>>

\* The server's check: both strings given, both parse as they were sent.
SrvDatesStatus(start, end) ==
  IF start = <<>> \/ end = <<>> THEN "dates_required"
  ELSE IF ~(Strptime(start) /\ Strptime(end)) THEN "invalid_date"
  ELSE "ok"

TabOutcomes == {"ok", "nonzero", "missing", "timeout"}

Tab(fe, sel, start, end, out, spawned, argv, status) ==
  [fe |-> fe, selected |-> sel, start |-> start, end |-> end, out |-> out,
   spawned |-> spawned, argv |-> argv, status |-> status]

\* WorkMonitorGUI.tabulate_work; out is the answer of the save dialog.
GuiTabulate(sel, start, end, out, outcome) ==
  /\ cmdPc = "idle"
  /\ LET dates == GuiValidateDates(start, end) IN
     tab' =
       IF sel = <<>> THEN Tab("gui", sel, start, end, out, 0, <<>>, "warning")
       ELSE IF dates[1] = <<>> \/ dates[2] = <<>>
         THEN Tab("gui", sel, start, end, out, 0, <<>>, "invalid_date")
       ELSE IF out = "" THEN Tab("gui", sel, start, end, out, 0, <<>>, "cancelled")
       ELSE Tab("gui", sel, start, end, out, 1, <<dates[1], dates[2]>>, outcome)
  /\ cmdPc' = "done"
  /\ cmdFe' = "gui"
  /\ cmdName' = "tabulateWork"
  /\ UNCHANGED <<batch, invoked, outcomes, errors, results, dialogs, reply>>
  /\ UNCHANGED <<lockVars, repoVars, concVars>>

\* tabulate_work of the server.
SrvTabulate(sel, start, end, out, outcome) ==
  /\ cmdPc = "idle"
  /\ tab' =
       IF sel = <<>> THEN Tab("server", sel, start, end, out, 0, <<>>, "none_selected")
       ELSE IF SrvDatesStatus(start, end) # "ok"
         THEN Tab("server", sel, start, end, out, 0, <<>>, SrvDatesStatus(start, end))
       ELSE IF out = "" THEN Tab("server", sel, start, end, out, 0, <<>>, "output_required")
       ELSE Tab("server", sel, start, end, out, 1, <<start, end>>, outcome)
  /\ cmdPc' = "done"
  /\ cmdFe' = "server"
  /\ cmdName' = "tabulateWork"
  /\ UNCHANGED <<batch, invoked, outcomes, errors, results, dialogs, reply>>
  /\ UNCHANGED <<lockVars, repoVars, concVars>>

OutFiles == {"", "report.csv"}

BatchPaths == { <<"a">>, <<"b">> }

TabNext ==
  \/ \E sel \in SeqsUpTo(BatchPaths, 1), start \in DateSamples, end \in DateSamples,
        out \in OutFiles, outcome \in TabOutcomes :
          GuiTabulate(sel, start, end, out, outcome)
  \/ \E sel \in SeqsUpTo(BatchPaths, 1), start \in DateSamples, end \in DateSamples,
        out \in OutFiles, outcome \in TabOutcomes :
          SrvTabulate(sel, start, end, out, outcome)

CmdNext ==
  \/ \E fe \in {"gui", "server"}, name \in {"startWork", "stopWork"},
        sel \in SeqsUpTo(BatchPaths, MaxBatch) : BatchBegin(fe, name, sel)
  \/ \E outcome \in RunOutcomes : BatchRun(outcome)
  \/ BatchEnd
  \/ TabNext

\* ------------------------------------------------------------------------
\* The two front-ends side by side, and the threads of the server
\* ------------------------------------------------------------------------
NThreads == 2

Threads == 1..NThreads

FrontEnds == {"gui", "server"}

\* LockFileOf with one lock file for both front-ends.
LockFileOf_Shared(fe) == "monitorWork.lock"

\* LOCK_FILE of each program.
LockFileOf(fe) ==
  IF fe = "gui" THEN "monitorWork.lock" ELSE "monitorWork_server.lock"

LockFiles == {"monitorWork.lock", "monitorWork_server.lock"}

IdleThread == [pc |-> "idle", path |-> <<>>, list |-> <<>>, status |-> 0]

ConcIdle ==
  /\ lockHeld = [f \in LockFiles |-> "none"]
  /\ inst = [fe \in FrontEnds |-> "off"]
  /\ thr = [t \in Threads |-> IdleThread]

\* with SingleInstance(LOCK_FILE): the program is started and takes the
\* flock of its lock file, or shows "already running" and exits.
Acquire(fe) ==
  /\ inst[fe] = "off"
  /\ fe = "gui" => (frontend = "gui" /\ phase = "init")
  /\ IF lockHeld[LockFileOf(fe)] = "none"
       THEN /\ lockHeld' = [lockHeld EXCEPT ![LockFileOf(fe)] = fe]
            /\ inst' = [inst EXCEPT ![fe] = "running"]
       ELSE /\ inst' = [inst EXCEPT ![fe] = "refused"]
            /\ UNCHANGED lockHeld
  /\ UNCHANGED thr
  /\ UNCHANGED <<lockVars, repoVars, cmdVars>>

\* The body of the GUI's with block: WorkMonitorGUI(root).
BothGuiStart == inst["gui"] = "running" /\ GuiStart

\* The GUI's main loop has ended: __exit__ gives the lock back and the
\* process is gone with its memory; the program can be started again.
ReleaseGui ==
  /\ inst["gui"] = "running"
  /\ frontend = "gui" /\ phase \in {"exited", "crashed"}
  /\ lockHeld' = [lockHeld EXCEPT ![LockFileOf("gui")] = "none"]
  /\ inst' = [inst EXCEPT !["gui"] = "off"]
  /\ phase' = "init"
  /\ repositories' = <<>>
  /\ repo_tree' = <<>>
  /\ UNCHANGED <<frontend, writable, cfgFile, response, lastOp>>
  /\ UNCHANGED thr
  /\ UNCHANGED <<lockVars, cmdVars>>

\* Ctrl+C ends app.run: __exit__ gives the lock back; the request threads
\* (daemon threads) end with the process.
ReleaseServer ==
  /\ inst["server"] = "running"
  /\ lockHeld' = [lockHeld EXCEPT ![LockFileOf("server")] = "none"]
  /\ inst' = [inst EXCEPT !["server"] = "off"]
  /\ thr' = [t \in Threads |-> IdleThread]
  /\ UNCHANGED <<lockVars, repoVars, cmdVars>>

\* A thread of the development server takes a POST /api/repositories
\* request: the checks of add_repository that touch no file.
AddBegin(t, raw) ==
  /\ inst["server"] = "running"
  /\ thr[t].pc = "idle"
  /\ thr' = [thr EXCEPT ![t] =
       IF raw = <<>> \/ ~IsGitRepo(Abspath(raw))
         THEN [pc |-> "done", path |-> Abspath(raw), list |-> <<>>, status |-> 400]
         ELSE [pc |-> "load", path |-> Abspath(raw), list |-> <<>>, status |-> 0]]
  /\ UNCHANGED <<lockHeld, inst>>
  /\ UNCHANGED <<lockVars, repoVars, cmdVars>>

\* repositories = load_repositories(); the duplicate test; the append.
AddLoad(t) ==
  /\ thr[t].pc = "load"
  /\ thr' = [thr EXCEPT ![t] =
       IF LoadRaises(cfgFile) THEN [@ EXCEPT !.pc = "done", !.status = 500]
       ELSE IF HasPath(LoadRepositories(cfgFile), thr[t].path)
         THEN [@ EXCEPT !.pc = "done", !.status = 400]
       ELSE [@ EXCEPT !.pc = "save",
                      !.list = AddEntry(LoadRepositories(cfgFile), thr[t].path)]]
  /\ UNCHANGED <<lockHeld, inst>>
  /\ UNCHANGED <<lockVars, repoVars, cmdVars>>

\* save_repositories(repositories); return jsonify({'repositories': ...})
AddSave(t) ==
  /\ thr[t].pc = "save"
  /\ cfgFile' = SavedFile(thr[t].list)
  /\ thr' = [thr EXCEPT ![t] = [@ EXCEPT !.pc = "done", !.status = 200]]
  /\ UNCHANGED <<lockHeld, inst>>
  /\ UNCHANGED <<frontend, phase, writable, repositories, repo_tree, response,
                 lastOp>>
  /\ UNCHANGED <<lockVars, cmdVars>>

\* The response has been read by the client; the thread takes the next
\* request.
AddEnd(t) ==
  /\ thr[t].pc = "done"
  /\ thr' = [thr EXCEPT ![t] = IdleThread]
  /\ UNCHANGED <<lockHeld, inst>>
  /\ UNCHANGED <<lockVars, repoVars, cmdVars>>

ThreadPaths == { <<"a">>, <<"c", "..", "b">>, <<"c">> }

ThreadStep(t) ==
  \/ \E raw \in ThreadPaths : AddBegin(t, raw)
  \/ AddLoad(t)
  \/ AddSave(t)
  \/ AddEnd(t)

ThreadNext == \E t \in Threads : ThreadStep(t)

\* The GUI of the two-front-end model starts on whatever file is there.
RepoGuiInit ==
  /\ frontend = "gui"
  /\ phase = "init"
  /\ writable = TRUE
  /\ cfgFile \in { MissingFile, JsonDump(<<Entry(<<"a">>, TRUE)>>) }
  /\ repositories = <<>>
  /\ repo_tree = <<>>
  /\ response = NoResponse
  /\ lastOp = NoOp

Init == LockInit /\ RepoIdle /\ CmdInit /\ ConcIdle
Next == LockNext
Spec == Init /\ [][Next]_vars

InitRepo == LockInit /\ RepoInit /\ CmdInit /\ ConcIdle
NextRepo == RepoNext
SpecRepo == InitRepo /\ [][NextRepo]_vars

InitCmd == LockInit /\ RepoIdle /\ CmdInit /\ ConcIdle
NextCmd == CmdNext
SpecCmd == InitCmd /\ [][NextCmd]_vars

InitLockFaults == LockInit /\ RepoIdle /\ CmdInit /\ ConcIdle
\* Each process is followed through one life, in which any statement of
\* its Release may raise.
NextLockFaults ==
  \E p \in Procs :
    \/ Mkdir(p)
    \/ OpenLock(p)
    \/ Flock(p)
    \/ WritePid(p)
    \/ AlreadyRunning(p)
    \/ EnterBody(p)
    \/ ExitNormal(p)
    \/ RaiseError(p)
    \/ SigInt(p)
    \/ Unlock(p)
    \/ CloseFd(p)
    \/ Exists(p)
    \/ Unlink(p)
    \/ ReleaseStepFails(p)
SpecLockFaults == InitLockFaults /\ [][NextLockFaults]_vars

\* One server instance, no GUI.
InitThreads == LockInit /\ RepoIdle /\ CmdInit /\ ConcIdle
NextThreads == Acquire("server") \/ ThreadNext \/ ReleaseServer
SpecThreads == InitThreads /\ [][NextThreads]_vars

\* One GUI instance and one server instance; the server handles one request
\* at a time here.
InitBoth == LockInit /\ RepoGuiInit /\ CmdInit /\ ConcIdle
NextBoth ==
  \/ \E fe \in FrontEnds : Acquire(fe)
  \/ BothGuiStart
  \/ \E raw \in ThreadPaths : GuiAdd(raw)
  \/ \E i \in DOMAIN repo_tree : GuiToggle(i)
  \/ GuiClose
  \/ ReleaseGui
  \/ ThreadStep(1)
  \/ ReleaseServer
SpecBoth == InitBoth /\ [][NextBoth]_vars

InitRepoFaults == LockInit /\ RepoInitFaults /\ CmdInit /\ ConcIdle
NextRepoFaults == RepoNext
SpecRepoFaults == InitRepoFaults /\ [][NextRepoFaults]_vars

\* ------------------------------------------------------------------------
\* Properties of the single-instance guard (checked under Spec)
\* ------------------------------------------------------------------------
Ended == {"exited", "killed"}

\* The process is past __enter__ and has not begun __exit__.
InBody(p) == acquired[p] /\ pc[p] \in {"body", "running"}

\* The process took the flock and has not begun Release nor ended.
HoldsLock(p) == pc[p] \in {"write", "body", "running"}

\* C1: at most one process of a front-end type is inside the application
\* body (has succeeded in Acquire and not yet released) at any time.
C1_MutualExclusion == Cardinality({p \in Procs : InBody(p)}) <= 1

\* C2: an Acquire attempted while another live process holds the lock
\* fails, and an Acquire fails only when some other process still has the
\* lock (it has not released it and has not ended).
C2_SecondAcquireFails ==
  [][\A p \in Procs :
       /\ (pc[p] = "flock" /\ pc'[p] = "write")
            => ~ \E q \in Procs \ {p} : HoldsLock(q)
       /\ (pc[p] = "flock" /\ pc'[p] = "except")
            => \E q \in Procs \ {p} : pc[q] \in {"write", "body", "running", "unlock"}
    ]_vars

\* C3: whenever a process that succeeded in Acquire ends, on any exit
\* path, Release has run in it and the lock file is gone from the disk.
C3_ReleaseOnEveryExit ==
  [][\A p \in Procs :
       (acquired[p] /\ pc[p] \notin Ended /\ pc'[p] \in Ended)
         => (releaseRan'[p] /\ lockPath' = None)
    ]_vars

\* The guard's state in one process.
GuardState(p) ==
  IF pc[p] \in Ended THEN "ProcessExit"
  ELSE IF lock_fd[p] # None /\ flockOwner[lock_fd[p]] = p THEN "Locked"
  ELSE "Unlocked"

GuardTransitions ==
  { <<"Unlocked", "Locked">>, <<"Locked", "Unlocked">>, <<"Unlocked", "ProcessExit">> }

\* The process's flock attempt failed.
AcquireFailed(p) == pc[p] = "except" \/ notified[p]

C13_ReleaseSwallowsErrors ==
  \A p \in Procs :
    releaseError[p] # "none" =>
      /\ pc[p] = "exited" /\ releaseRan[p] /\ acquired[p]
      /\ excType[p] = "none" => exitStatus[p] = 0
      /\ excType[p] \in {"error", "interrupt"} => exitStatus[p] = 1

\* An uncaught error ended the body, the unlock raised in __exit__, and the
\* process ended with the status of the error; another process whose close
\* raised after a normal shutdown ended with status 0.
C13_Witness ==
  \E p, q \in Procs :
    /\ releaseError[p] = "flock" /\ excType[p] = "error"
    /\ pc[p] = "exited" /\ exitStatus[p] = 1
    /\ releaseError[q] = "close" /\ excType[q] = "none"
    /\ pc[q] = "exited" /\ exitStatus[q] = 0

\* C14: while a process has completed Acquire and still holds the lock,
\* the lock file it locked holds its process id as text, whatever other
\* processes have attempted Acquire since.
C14_ContentIsHolderPid ==
  \A p \in Procs :
    (InBody(p) /\ flockOwner[lock_fd[p]] = p) => content[lock_fd[p]] = p

\* ------------------------------------------------------------------------
\* Properties of the repository list (checked under SpecRepo)
\* ------------------------------------------------------------------------
\* How many entries of the list carry the path.
CountPath(list, path) == Cardinality({i \in DOMAIN list : list[i].path = path})

\* C5: once a front-end instance has run any sequence of its list
\* operations and exited, loading the configuration file gives the list
\* the instance held at exit: the GUI's self.repositories, or the list of
\* the server's last list response (same entries, order and flags).
C5_RoundTrip ==
  /\ (frontend = "gui" /\ phase = "exited")
       => LoadRepositories(cfgFile) = repositories
  /\ (frontend = "server" /\ phase = "exited" /\ response.sent)
       => LoadRepositories(cfgFile) = response.repositories

\* The GUI has exited after an add and a select-all changed the list.
C5_Witness ==
  /\ frontend = "gui" /\ phase = "exited"
  /\ repositories = <<Entry(<<"a">>, TRUE), Entry(<<"b">>, TRUE)>>
  /\ cfgFile.kind = "object"

\* C6: no two entries of the in-memory list or of the persisted list share
\* the same path.
C6_UniquePaths ==
  /\ \A i, j \in DOMAIN repositories :
       repositories[i].path = repositories[j].path => i = j
  /\ \A i, j \in DOMAIN LoadRepositories(cfgFile) :
       LoadRepositories(cfgFile)[i].path = LoadRepositories(cfgFile)[j].path => i = j

\* The list a handler of the running front-end works on, after the handler.
ListNow == IF frontend = "gui" THEN repositories ELSE LoadRepositories(cfgFile)

\* C7: an add of a path without a .git directory is rejected (GUI error
\* dialog, server 400, an entry of 'errors' in batch-add); the in-memory
\* and the persisted list do not gain the path; a single add does not
\* write the configuration file at all.
C7_NonGitRejected ==
  /\ (lastOp.op = "add" /\ lastOp.arg # <<>> /\ Abspath(lastOp.arg) \notin GitDirs)
       => /\ lastOp.status = (IF frontend = "gui" THEN "error" ELSE 400)
          /\ lastOp.saves = 0
          /\ cfgFile = lastOp.fileBefore
          /\ ListNow = lastOp.before
  /\ lastOp.op = "batch_add"
       => \A i \in DOMAIN lastOp.arg :
            (lastOp.arg[i] # <<>> /\ Abspath(lastOp.arg[i]) \notin GitDirs)
              => /\ \E k \in DOMAIN lastOp.errors :
                      lastOp.errors[k] = Abspath(lastOp.arg[i])
                 /\ CountPath(ListNow, Abspath(lastOp.arg[i]))
                      = CountPath(lastOp.before, Abspath(lastOp.arg[i]))
                 /\ CountPath(response.repositories, Abspath(lastOp.arg[i]))
                      = CountPath(lastOp.before, Abspath(lastOp.arg[i]))

\* A batch-add in which one path was refused and another one was added.
C7_Witness ==
  /\ lastOp.op = "batch_add"
  /\ lastOp.errors = << <<"c">> >>
  /\ lastOp.added = 1
  /\ Len(ListNow) = Len(lastOp.before) + 1

\* C8: an add of a path that is already in the list (after abspath) is
\* rejected; the list is left as it was, entry for entry.  In batch-add
\* the entries that were there keep their place and flag and the path
\* still occurs as often as before.
C8_DuplicateRejected ==
  /\ (lastOp.op = "add" /\ lastOp.arg # <<>>
        /\ CountPath(lastOp.before, Abspath(lastOp.arg)) > 0)
       => /\ lastOp.status \in (IF frontend = "gui" THEN {"warning", "error"} ELSE {400})
          /\ ListNow = lastOp.before
          /\ Len(ListNow) = Len(lastOp.before)
          /\ cfgFile = lastOp.fileBefore
  /\ lastOp.op = "batch_add"
       => \A i \in DOMAIN lastOp.arg :
            (lastOp.arg[i] # <<>>
               /\ CountPath(lastOp.before, Abspath(lastOp.arg[i])) > 0)
              => /\ SubSeq(ListNow, 1, Len(lastOp.before)) = lastOp.before
                 /\ CountPath(ListNow, Abspath(lastOp.arg[i]))
                      = CountPath(lastOp.before, Abspath(lastOp.arg[i]))

\* The server refused "/a/." because "/a" is in the list, selected.
C8_Witness ==
  /\ frontend = "server"
  /\ lastOp.op = "add" /\ lastOp.arg = <<"a", ".">> /\ lastOp.status = 400
  /\ lastOp.before = <<Entry(<<"b">>, FALSE), Entry(<<"a">>, TRUE)>>
  /\ ListNow = lastOp.before

\* The last handler was a single add that succeeded: the GUI saved without
\* an error dialog, the server answered 200.
AddSucceeded ==
  /\ lastOp.op = "add"
  /\ lastOp.status = (IF frontend = "gui" THEN "ok" ELSE 200)

\* C12: a successful add of a git path P leaves the list it found, entry
\* for entry, followed by {path: abspath(P), selected: false}; the handler
\* writes the configuration file once, and the file holds that list (from
\* the empty configuration: exactly the one entry).  The server's response
\* carries the same list.
C12_AddAppendsOnce ==
  AddSucceeded =>
    /\ Abspath(lastOp.arg) \in GitDirs
    /\ ListNow = lastOp.before \o << [path |-> Abspath(lastOp.arg), selected |-> FALSE] >>
    /\ lastOp.saves = 1 /\ lastOp.added = 1
    /\ cfgFile # lastOp.fileBefore
    /\ LoadRepositories(cfgFile) = ListNow
    /\ frontend = "server" => response = ListResponse(ListNow)
    /\ frontend = "gui" => repo_tree = TreeOf(repositories)

\* From the empty configuration, "/c/../b" was added: the file holds the
\* single entry {path: "/b", selected: false}.
C12_Witness ==
  /\ AddSucceeded
  /\ lastOp.arg = <<"c", "..", "b">>
  /\ lastOp.fileBefore = MissingFile /\ lastOp.before = <<>>
  /\ cfgFile = [kind |-> "object",
                repositories |-> << [path |-> <<"b">>, selected |-> "false"] >>]

\* The file the last handler found is not a JSON object with a list under
\* 'repositories': it is missing, is not JSON, or is JSON of another shape.
FoundMalformed == lastOp.fileBefore.kind \in {"missing", "garbage", "array"}

\* C11: loading never fails.  A GUI that started on a missing or malformed
\* configuration file runs with the empty list; a server handler that
\* loads such a file works on the empty list (GET answers 200 with []), and
\* no handler answers 500 because the load raised.
C11_LoadNeverFails ==
  /\ phase # "crashed"
  /\ (frontend = "gui" /\ lastOp.op = "start" /\ FoundMalformed)
       => (phase = "running" /\ repositories = <<>>)
  /\ (frontend = "server" /\ lastOp.op = "get" /\ FoundMalformed)
       => (lastOp.status = 200 /\ response = ListResponse(<<>>))
  /\ (frontend = "server" /\ lastOp.op \in {"add", "remove", "batch_add"})
       => lastOp.status # 500

\* C17: a failed write of the configuration file is reported.  A GUI
\* handler that saved while the file could not be written showed the error
\* dialog; a server handler that saved and answered with success (status
\* 200 and a repository list) left the file holding exactly that list.
C17_SaveFailureReported ==
  /\ (frontend = "gui" /\ lastOp.saves = 1 /\ ~writable)
       => lastOp.status = "save_error"
  /\ (frontend = "server" /\ lastOp.saves = 1 /\ lastOp.status = 200)
       => /\ response.sent
          /\ cfgFile.kind = "object"
          /\ LoadRepositories(cfgFile) = response.repositories

\* ------------------------------------------------------------------------
\* Properties of concurrent writers (checked under SpecThreads, SpecBoth)
\* ------------------------------------------------------------------------
\* The request of thread t is complete and was answered with success.
Answered200(t) == thr[t].pc = "done" /\ thr[t].status = 200

\* C15: within one server instance, when two add requests for distinct
\* git paths have both completed with a success response, both paths are
\* in the persisted list.
C15_NoLostUpdate ==
  \A t, u \in Threads :
    (t # u /\ Answered200(t) /\ Answered200(u) /\ thr[t].path # thr[u].path)
      => /\ CountPath(LoadRepositories(cfgFile), thr[t].path) = 1
         /\ CountPath(LoadRepositories(cfgFile), thr[u].path) = 1

\* C16: the two programs lock different files, so neither is ever turned
\* away because of the other and each lock file is only ever held by its
\* own front-end; and every save is a whole-file overwrite: after a save
\* by the GUI the file holds exactly the GUI's in-memory list, after a save
\* by a server handler exactly the list that handler had loaded and
\* extended, whatever the other front-end had written in between.
C16_DistinctLocksWholeFileSave ==
  [][/\ \A fe \in FrontEnds : inst'[fe] # "refused"
     /\ lockHeld'["monitorWork.lock"] \in {"none", "gui"}
     /\ lockHeld'["monitorWork_server.lock"] \in {"none", "server"}
     /\ (lastOp' # lastOp /\ lastOp'.saves = 1)
          => cfgFile' = JsonDump(repositories')
     /\ \A t \in Threads :
          (thr[t].pc = "save" /\ thr'[t].pc = "done")
            => cfgFile' = JsonDump(thr[t].list)
    ]_vars

\* Both instances hold their locks; the server had added a path and
\* answered 200, the file held it, and the GUI's save on closing (of the
\* list it loaded at startup) wrote a file without it.
C16_Witness ==
  /\ lockHeld["monitorWork.lock"] = "gui"
  /\ lockHeld["monitorWork_server.lock"] = "server"
  /\ inst["gui"] = "running" /\ inst["server"] = "running"
  /\ lastOp.op = "close" /\ lastOp.saves = 1 /\ lastOp.status = "ok"
  /\ Answered200(1)
  /\ CountPath(LoadRepositories(lastOp.fileBefore), thr[1].path) = 1
  /\ CountPath(LoadRepositories(cfgFile), thr[1].path) = 0
  /\ CountPath(repositories, thr[1].path) = 0

\* ------------------------------------------------------------------------
\* Properties of the command handlers (checked under SpecCmd)
\* ------------------------------------------------------------------------
\* The date text as the handler of that front-end parses it.
DateBad(fe, d) == IF fe = "gui" THEN ~Strptime(Strip(d)) ELSE ~Strptime(d)

\* C9: a tabulateWork request whose start or end date does not parse as
\* %Y-%m-%d is rejected with an error and spawns nothing; a subprocess is
\* spawned only with two dates that parse, a non-empty selection and an
\* output file.
C9_NoSpawnOnBadDate ==
  tab.fe # "none" =>
    /\ (DateBad(tab.fe, tab.start) \/ DateBad(tab.fe, tab.end))
         => /\ tab.spawned = 0
            /\ tab.status \in {"invalid_date", "dates_required", "warning", "none_selected"}
    /\ tab.spawned = 1
         => /\ Len(tab.argv) = 2
            /\ Strptime(tab.argv[1]) /\ Strptime(tab.argv[2])
            /\ tab.selected # <<>>
            /\ tab.out # ""
    /\ tab.spawned \in {0, 1}

\* The GUI refused a request whose start date parses and whose end date
\* does not.
C9_Witness ==
  /\ tab.fe = "gui" /\ tab.selected # <<>> /\ tab.out # ""
  /\ Strptime(Strip(tab.start)) /\ ~Strptime(Strip(tab.end))
  /\ tab.spawned = 0 /\ tab.status = "invalid_date"

IsBatchCmd == cmdName \in {"startWork", "stopWork"}

\* C10 as stated: when a start-work or stop-work batch has ended, the
\* command was invoked once for each repository of the batch, whether it
\* was missing, timed out or failed for some of them.
C10_AllAttempted ==
  (IsBatchCmd /\ cmdPc = "done") => invoked = batch

\* C10 amended: the command is invoked at most once per repository, in
\* order; a timeout or a non-zero exit is reported and the remaining
\* repositories are attempted; a missing command is reported once and
\* ends the batch at that repository.
C10_ContinuesExceptWhenMissing ==
  IsBatchCmd =>
    /\ Len(invoked) <= Len(batch)
    /\ \A i \in DOMAIN invoked : invoked[i] = batch[i]
    /\ Len(outcomes) = Len(invoked)
    /\ \A i \in DOMAIN outcomes : outcomes[i] = "missing" => i = Len(outcomes)
    /\ cmdPc = "loop" =>
         \A i \in DOMAIN outcomes : outcomes[i] # "missing"
    /\ cmdPc = "done" =>
         \/ invoked = batch
         \/ outcomes # <<>> /\ outcomes[Len(outcomes)] = "missing"
    /\ cmdFe = "gui" =>
         \A i \in DOMAIN outcomes :
            /\ outcomes[i] = "timeout" =>
                 \E k \in DOMAIN dialogs : dialogs[k] = Report("timeout", invoked[i])
            /\ outcomes[i] = "missing" =>
                 \E k \in DOMAIN dialogs : dialogs[k] = Report("not_found", <<>>)
    /\ (cmdFe = "server" /\ cmdPc = "done" /\ batch # <<>>) =>
         IF \E i \in DOMAIN outcomes : outcomes[i] = "missing"
           THEN reply.status = 500 /\ reply.error = "not_found"
           ELSE /\ reply.status = 200
                /\ \A i \in DOMAIN outcomes :
                     outcomes[i] = "timeout" =>
                       \E k \in DOMAIN reply.errors :
                          reply.errors[k] = Report("timeout", invoked[i])

\* A batch of three ended after the first repository timed out and the
\* other two were still run.
C10_Witness ==
  /\ IsBatchCmd /\ cmdPc = "done"
  /\ Len(batch) = 3 /\ invoked = batch
  /\ outcomes = <<"timeout", "ok", "nonzero">>
====
